---- MODULE Spec2Model ----
(***************************************************************************)
(* Portfolio optimizer: the OptimizationEngine search loop (weighted       *)
(* sampling, sector constraints, return gate, greedy local search, best-K  *)
(* retention, fallback), the /api/optimize exchange, and the client state  *)
(* of App.jsx (handleOptimize, checkBackendHealth, Dismiss).               *)
(*                                                                         *)
(* Returns and risks are exact integers: a candidate always has k members  *)
(* with weights 1/k, so the expected return is carried as the sum of the   *)
(* members' returns (k times the mean) and the risk as the sum of the      *)
(* covariance entries (k*k times w'Sw).  The return gate compares the sum  *)
(* with k times the floor, which is the comparison of the mean with the    *)
(* floor.                                                                  *)
(***************************************************************************)
EXTENDS Integers, Sequences, FiniteSets, TLC

\* ---------------------------------------------------------------- bounds
NumCandidates == 6
NumSectors == 3
MaxIter == 4
MaxHealthChecks == 2
NumWorkers == 2
MaxFed == 3
NumInstruments == 6
MaxTopK == 2
MaxClusterCap == 2
MaxWeights == 3
MaxWeightNum == 2
MaxPathLen == 4
MaxPrice == 3
MaxReqTrials == 2

\* ------------------------------------------------------ program constants
SWAP_ROUNDS == 5
TOP_K == 3
UNIVERSE_SECTORS == 11
MAX_PER_SECTOR == 2
MIN_SECTORS == 6

\* ------------------------------------------------- CandidatePool (inputs)
Candidates == 1..NumCandidates

Sector(i) == ((i - 1) % NumSectors) + 1

\* short-window mean return of an instrument: the riskier instruments of
\* the pool are the ones that return more
Ret(i) == i

\* covariance matrix: variance on the diagonal, a positive covariance
\* between instruments of one sector, none across sectors
Cov(i, j) == IF i = j THEN 2 ^ (i - 1)
             ELSE IF Sector(i) = Sector(j) THEN 1 ELSE 0

NoCand == {}

RECURSIVE SumOver(_, _)
SumOver(S, f) == IF S = {} THEN 0
                 ELSE LET x == CHOOSE y \in S : TRUE
                      IN f[x] + SumOver(S \ {x}, f)

\* constraints of one optimize call: instrument count, max-per-sector cap,
\* minimum sectors, return floor, iteration budget, Jaccard threshold
\* (num/den) of the near-duplicate test
Constraints ==
    { [k |-> 2, max_per_sector |-> 1, min_sectors |-> 2, min_return |-> 1,
       n_iterations |-> 3, jaccard |-> <<1, 4>>],
      [k |-> 2, max_per_sector |-> 1, min_sectors |-> 2,
       min_return |-> NumCandidates + 1,
       n_iterations |-> MaxIter, jaccard |-> <<1, 4>>],
      [k |-> 3, max_per_sector |-> 2, min_sectors |-> 2, min_return |-> 3,
       n_iterations |-> 2, jaccard |-> <<1, 6>>],
      [k |-> 2, max_per_sector |-> 1, min_sectors |-> 3, min_return |-> 1,
       n_iterations |-> MaxIter, jaccard |-> <<1, 4>>],
      [k |-> 2, max_per_sector |-> 2, min_sectors |-> 1, min_return |-> 2,
       n_iterations |-> MaxIter, jaccard |-> <<1, 2>>] }

NoConstraints == [k |-> 0, max_per_sector |-> 0, min_sectors |-> 0,
                  min_return |-> 0, n_iterations |-> 0, jaccard |-> <<1, 1>>]

\* ------------------------------------------------------- engine operators
\* the subsets a weighted draw without replacement can return: softmax
\* weights are positive, so every subset of the requested size
SubsetsOfSize ==
    [k \in 0..NumCandidates |->
        { S \in SUBSET Candidates : Cardinality(S) = k }]

weighted_sample(k) == SubsetsOfSize[k]

SectorCount(S, s) == Cardinality({ i \in S : Sector(i) = s })

SectorsOf(S) == { Sector(i) : i \in S }

meets_sector_constraints_cap_only(S, c) ==
    \A s \in SectorsOf(S) : SectorCount(S, s) <= c.max_per_sector

meets_sector_constraints(S, c) ==
    /\ \A s \in SectorsOf(S) : SectorCount(S, s) <= c.max_per_sector
    /\ Cardinality(SectorsOf(S)) >= c.min_sectors

\* (f @@ <<>> equals f; it makes TLC tabulate the function once)
ReturnOf == [S \in SUBSET Candidates |->
                SumOver(S, [i \in Candidates |-> Ret(i)])] @@ <<>>

expected_return(S) == ReturnOf[S]

meets_return(S, c) == expected_return(S) >= c.min_return * Cardinality(S)

RiskOf == [S \in SUBSET Candidates |->
              SumOver(S, [i \in Candidates |->
                             SumOver(S, [j \in Candidates |-> Cov(i, j)])])]
          @@ <<>>

compute_risk(S) == RiskOf[S]

\* one-instrument replacements of a candidate
Swaps(S) == { (S \ {o}) \cup {n} : o \in S, n \in Candidates \ S }

\* a swap judged on risk and sectors alone
try_single_swap_risk_only(S, c) ==
    { T \in Swaps(S) :
         /\ compute_risk(T) < compute_risk(S)
         /\ meets_sector_constraints(T, c) }

\* the portfolios a swap round may move to: strictly lower risk, return
\* gate and sector constraints still met.  First-improving and
\* best-of-round both pick a member of this set.
try_single_swap(S, c) ==
    { T \in Swaps(S) :
         /\ compute_risk(T) < compute_risk(S)
         /\ meets_return(T, c)
         /\ meets_sector_constraints(T, c) }

\* same instrument set, or Jaccard similarity beyond the threshold
near_duplicate(a, b, c) ==
    \/ a = b
    \/ Cardinality(a \cap b) * c.jaccard[2]
           > c.jaccard[1] * Cardinality(a \cup b)

InsertByRisk_at_end(list, x) == Append(list, x)

InsertByRisk(list, x) ==
    LET pos == Cardinality({ i \in 1..Len(list) :
                               compute_risk(list[i]) <= compute_risk(x) })
    IN SubSeq(list, 1, pos) \o <<x>> \o SubSeq(list, pos + 1, Len(list))

Truncate_keeps_all(list, n) == list

Truncate(list, n) == SubSeq(list, 1, IF Len(list) < n THEN Len(list) ELSE n)

\* best-K retention: a candidate enters only if no retained one is a
\* near-duplicate of it; the list stays sorted by risk and bounded by K
retain(list, x, c) ==
    IF \E i \in 1..Len(list) : near_duplicate(list[i], x, c)
    THEN list
    ELSE Truncate(InsertByRisk(list, x), TOP_K)

\* fallback bookkeeping: the highest-return sample that reached the
\* return gate
best_return(old, S) ==
    IF old = NoCand \/ expected_return(S) > expected_return(old)
    THEN S ELSE old

\* number of sector-constraint violations of a sample
Violations(S, c) ==
    SumOver(SectorsOf(S),
            [s \in 1..NumSectors |->
                IF SectorCount(S, s) > c.max_per_sector
                THEN SectorCount(S, s) - c.max_per_sector ELSE 0])
    + (IF Cardinality(SectorsOf(S)) < c.min_sectors
       THEN c.min_sectors - Cardinality(SectorsOf(S)) ELSE 0)

\* the least-violating rejected sample: the partial relaxation reported
\* with ConstraintUnsatisfiable
best_partial(old, S, c) ==
    IF old = NoCand \/ Violations(S, c) < Violations(old, c)
    THEN S ELSE old

NoOutcome == [kind |-> "none", candidates |-> <<>>, relaxed |-> FALSE,
              warnings |-> {}, achievable |-> 0]

\* termination of the search (step 6)
emit(list, fb, pt) ==
    IF list # <<>>
    THEN [kind |-> "result", candidates |-> list, relaxed |-> FALSE,
          warnings |-> {}, achievable |-> expected_return(list[1])]
    ELSE IF fb # NoCand
    THEN [kind |-> "result", candidates |-> <<fb>>, relaxed |-> TRUE,
          warnings |-> {"ReturnFloorUnreachable"},
          achievable |-> expected_return(fb)]
    ELSE [kind |-> "unsatisfiable", candidates |-> <<pt>>, relaxed |-> TRUE,
          warnings |-> {"ConstraintUnsatisfiable"}, achievable |-> 0]

\* ------------------------------------------------ /api/optimize exchange
Undefined == "undefined"

Null == [null |-> TRUE]

NoBody == [success |-> FALSE, error |-> Undefined, message |-> Undefined,
           detail_message |-> Undefined, detail_error |-> Undefined,
           portfolio |-> NoCand,
           alternatives |-> <<>>, warnings |-> {}, expected_return |-> 0,
           best_available |-> NoCand]

\* the server's answer for an outcome of the engine: the result body (9.2)
\* for an unrelaxed result, the error body (9.3) otherwise
server_response(o) ==
    IF o.kind = "result" /\ ~o.relaxed
    THEN [kind |-> "response", status |-> 200,
          data |-> [NoBody EXCEPT !.success = TRUE,
                                  !.portfolio = o.candidates[1],
                                  !.alternatives = Tail(o.candidates),
                                  !.warnings = o.warnings,
                                  !.expected_return = o.achievable]]
    ELSE IF o.kind = "result"
    THEN [kind |-> "response", status |-> 400,
          data |-> [NoBody EXCEPT !.error = "insufficient_return",
                                  !.message = "maximum_achievable",
                                  !.expected_return = o.achievable,
                                  !.best_available = o.candidates[1]]]
    ELSE [kind |-> "response", status |-> 400,
          data |-> [NoBody EXCEPT !.error = "constraint_unsatisfiable",
                                  !.message = "constraints_unsatisfiable",
                                  !.best_available = o.candidates[1]]]

NoResponse == [kind |-> "no_response", status |-> 0, data |-> NoBody]

\* no optimize call has resolved since the latest submission
NoWire == [kind |-> "none", status |-> 0, data |-> NoBody]

SetupError == [kind |-> "setup_error", status |-> 0, data |-> NoBody]

\* JavaScript a || b on strings
OrElse(a, b) == IF a \in {Undefined, ""} THEN b ELSE a

\* an optimizePortfolio that looks for the error code under detail too
optimizePortfolio_reads_detail(w) ==
    IF w.kind = "response" /\ w.status >= 200 /\ w.status < 300
    THEN [success |-> TRUE, data |-> w.data, error |-> Undefined,
          message |-> Undefined]
    ELSE IF w.kind = "response"
    THEN [success |-> FALSE, data |-> Null,
          error |-> OrElse(w.data.error,
                           OrElse(w.data.detail_error, "optimization_error")),
          message |-> OrElse(w.data.message,
                             OrElse(w.data.detail_message,
                                    "Optimization failed"))]
    ELSE IF w.kind = "no_response"
    THEN [success |-> FALSE, data |-> Null, error |-> "network_error",
          message |-> "Cannot connect to server"]
    ELSE [success |-> FALSE, data |-> Null, error |-> "unknown_error",
          message |-> "An unknown error occurred"]

\* an optimizePortfolio that passes the server's error code on as it is
optimizePortfolio_code_as_sent(w) ==
    IF w.kind = "response" /\ w.status >= 200 /\ w.status < 300
    THEN [success |-> TRUE, data |-> w.data, error |-> Undefined,
          message |-> Undefined]
    ELSE IF w.kind = "response"
    THEN [success |-> FALSE, data |-> Null,
          error |-> w.data.error,
          message |-> OrElse(w.data.message,
                             OrElse(w.data.detail_message,
                                    "Optimization failed"))]
    ELSE IF w.kind = "no_response"
    THEN [success |-> FALSE, data |-> Null, error |-> "network_error",
          message |-> "Cannot connect to server"]
    ELSE [success |-> FALSE, data |-> Null, error |-> "unknown_error",
          message |-> "An unknown error occurred"]

\* api.optimizePortfolio: what the awaited call resolves to
optimizePortfolio(w) ==
    IF w.kind = "response" /\ w.status >= 200 /\ w.status < 300
    THEN [success |-> TRUE, data |-> w.data, error |-> Undefined,
          message |-> Undefined]
    ELSE IF w.kind = "response"
    THEN [success |-> FALSE, data |-> Null,
          error |-> OrElse(w.data.error, "optimization_error"),
          message |-> OrElse(w.data.message,
                             OrElse(w.data.detail_message,
                                    "Optimization failed"))]
    ELSE IF w.kind = "no_response"
    THEN [success |-> FALSE, data |-> Null, error |-> "network_error",
          message |-> "Cannot connect to server"]
    ELSE [success |-> FALSE, data |-> Null, error |-> "unknown_error",
          message |-> "An unknown error occurred"]

\* ------------------------------------------------------------------ state
VARIABLES
    isLoading, results, error, backendStatus,   \* App state
    healthPending,     \* health checks awaiting their answer
    inFlight,          \* optimize calls awaiting their answer
    lastWire,          \* what the latest resolved optimize call met
    pc,                \* idle, sample, search, done, responded
    cfg,               \* constraints of the running optimize call
    iter,              \* samples drawn so far
    cur, rounds,       \* candidate under local search, swap rounds of
                       \* the latest local search
    retained,          \* best-K list
    fallback, partial, \* best-return sample, least-violating reject
    outcome,           \* what optimize emitted
    bestRisk,          \* lowest risk handed to retention so far (0: none)
    risked,            \* sample whose risk the latest loop step computed
    reduceCfg,         \* constraints of the search that is split
    fed,               \* candidates handed to best-K retention so far
    singleBest,        \* best-K list of the run with one worker
    workersBest,       \* local best-K list of each of NumWorkers workers
    globalBest,        \* merged best-K list
    reducePc,          \* split, merged
    apiFn, apiWire, apiResult,  \* an API call: function, what axios
                                \* met, what the call resolved to
    config, submitted, \* ConfigPanel state; what the latest event
                       \* passed to onOptimize (Null: no call)
    universe, topK,    \* CandidateSelector input: instruments in input
                       \* order, top_k_per_sector
    ranked,            \* output of filter_by_sector
    distThreshold, clusterCap,  \* distance_threshold (thousandths), cap
    clusters, pool,    \* clusters of the cut dendrogram, CandidatePool
    selPc,             \* input, loaded, ranked, pooled
    weights, covOrder, \* portfolio_variance's arguments: the weight
                       \* vector and the covariance's instrument order
    variance,          \* what portfolio_variance returned
    caller,            \* who called it: engine or other
    pricePath,         \* max_drawdown's argument
    drawdown,          \* what max_drawdown returned
    riskPc,            \* idle, computed, aborted, drawn
    reqCfg,            \* constraints of each concurrent request
    reqCur,            \* candidate the running trial of each request
                       \* came to (NoCand: between trials)
    reqBest,           \* the best-K accumulators
    reqFed,            \* trials each request has completed
    reqResult,         \* what each request returned
    aloneBest,         \* best-K list of the same request run alone on
                       \* the same trials
    reqPc              \* of each request: new, running, done

vars == <<isLoading, results, error, backendStatus, healthPending,
          inFlight, lastWire, pc, cfg,
          iter, cur, rounds, retained, fallback, partial, outcome,
          bestRisk, risked, reduceCfg, fed, singleBest, workersBest, globalBest,
          reducePc, apiFn, apiWire, apiResult, config,
          submitted, universe, topK, ranked, distThreshold, clusterCap,
          clusters, pool, selPc, weights, covOrder, variance, caller,
          pricePath, drawdown, riskPc, reqCfg, reqCur, reqBest, reqFed,
          reqResult, aloneBest, reqPc>>

appVars == <<isLoading, results, error, backendStatus, healthPending,
            inFlight, lastWire>>

engineVars == <<pc, cfg, iter, cur, rounds, retained, fallback, partial,
                outcome, bestRisk, risked>>

reduceVars == <<reduceCfg, fed, singleBest, workersBest, globalBest,
                reducePc>>

apiVars == <<apiFn, apiWire, apiResult>>

\* state of the components that are exercised on their own
panelVars == <<config, submitted>>

selectorVars == <<universe, topK, ranked, distThreshold, clusterCap,
                  clusters, pool, selPc>>

riskVars == <<weights, covOrder, variance, caller, pricePath, drawdown,
              riskPc>>

requestVars == <<reqCfg, reqCur, reqBest, reqFed, reqResult, aloneBest,
                 reqPc>>

libVars == <<apiVars, panelVars, selectorVars, riskVars, requestVars>>

\* the optimization requests in flight at the same time
Requests == 1..2

\* a weight vector: the instruments its entries stand for, in order, and
\* the entries as numerators over one denominator
NoWeights == [order |-> <<>>, num |-> <<>>, den |-> 1]

\* a value of the risk model: a fraction, or the error that replaced it
NoValue == [error |-> "none", num |-> 0, den |-> 1]

\* ConfigPanel's initial config; fractions are carried in hundredths
DefaultConfig ==
    [max_stocks |-> 10, min_return |-> 12, risk_window_months |-> 12,
     return_window_months |-> 3, top_k_per_sector |-> 5,
     correlation_threshold |-> 75]

Init ==
    /\ isLoading = FALSE
    /\ results = Null
    /\ error = Null
    /\ backendStatus = "checking"
    /\ healthPending = 1
    /\ inFlight = 0
    /\ lastWire = NoWire
    /\ pc = "idle"
    /\ cfg = NoConstraints
    /\ iter = 0
    /\ cur = NoCand
    /\ rounds = 0
    /\ retained = <<>>
    /\ fallback = NoCand
    /\ partial = NoCand
    /\ outcome = NoOutcome
    /\ bestRisk = 0
    /\ risked = NoCand
    /\ reduceCfg = NoConstraints
    /\ fed = 0
    /\ singleBest = <<>>
    /\ workersBest = [w \in 1..NumWorkers |-> <<>>]
    /\ globalBest = <<>>
    /\ reducePc = "split"
    /\ apiFn = "none"
    /\ apiWire = NoResponse
    /\ apiResult = Null
    /\ config = DefaultConfig
    /\ submitted = Null
    /\ universe = <<>>
    /\ topK = 0
    /\ ranked = <<>>
    /\ distThreshold = 0
    /\ clusterCap = 0
    /\ clusters = {}
    /\ pool = <<>>
    /\ selPc = "input"
    /\ weights = NoWeights
    /\ covOrder = <<>>
    /\ variance = NoValue
    /\ caller = "none"
    /\ pricePath = <<>>
    /\ drawdown = NoValue
    /\ riskPc = "idle"
    /\ reqCfg = [r \in Requests |-> NoConstraints]
    /\ reqCur = [r \in Requests |-> NoCand]
    /\ reqBest = [r \in Requests |-> <<>>]
    /\ reqFed = [r \in Requests |-> 0]
    /\ reqResult = [r \in Requests |-> <<>>]
    /\ aloneBest = [r \in Requests |-> <<>>]
    /\ reqPc = [r \in Requests |-> "new"]

\* ---------------------------------------------------------------- client
\* a submit button that is never disabled
submit_disabled_never == FALSE

\* a submit button that waits for a healthy backend
submit_disabled_unless_healthy == isLoading \/ backendStatus # "healthy"

\* ConfigPanel's submit button: disabled={isLoading}
submit_disabled == isLoading

\* a handleOptimize that leaves the previous error in place
handleOptimize_keeps_error(c) ==
    /\ ~submit_disabled
    /\ isLoading' = TRUE
    /\ results' = Null
    /\ inFlight' = inFlight + 1
    /\ lastWire' = NoWire
    /\ pc' = "sample"
    /\ cfg' = c
    /\ iter' = 0
    /\ cur' = NoCand
    /\ rounds' = 0
    /\ retained' = <<>>
    /\ fallback' = NoCand
    /\ partial' = NoCand
    /\ outcome' = NoOutcome
    /\ bestRisk' = 0
    /\ risked' = NoCand
    /\ UNCHANGED <<error, backendStatus, healthPending, reduceVars, libVars>>

\* a handleOptimize that leaves the previous results on screen
handleOptimize_keeps_results(c) ==
    /\ ~submit_disabled
    /\ isLoading' = TRUE
    /\ error' = Null
    /\ inFlight' = inFlight + 1
    /\ lastWire' = NoWire
    /\ pc' = "sample"
    /\ cfg' = c
    /\ iter' = 0
    /\ cur' = NoCand
    /\ rounds' = 0
    /\ retained' = <<>>
    /\ fallback' = NoCand
    /\ partial' = NoCand
    /\ outcome' = NoOutcome
    /\ bestRisk' = 0
    /\ risked' = NoCand
    /\ UNCHANGED <<results, backendStatus, healthPending, reduceVars, libVars>>

\* handleOptimize up to the await; the submit button is disabled while
\* isLoading, so no second call starts before the first has resolved
handleOptimize(c) ==
    /\ ~submit_disabled
    /\ isLoading' = TRUE
    /\ error' = Null
    /\ results' = Null
    /\ inFlight' = inFlight + 1
    /\ lastWire' = NoWire
    /\ pc' = "sample"
    /\ cfg' = c
    /\ iter' = 0
    /\ cur' = NoCand
    /\ rounds' = 0
    /\ retained' = <<>>
    /\ fallback' = NoCand
    /\ partial' = NoCand
    /\ outcome' = NoOutcome
    /\ bestRisk' = 0
    /\ risked' = NoCand
    /\ UNCHANGED <<backendStatus, healthPending, reduceVars, libVars>>

\* a handleOptimize that ends the loading phase on success only
handleOptimizeResolved_success_only(r) ==
    /\ results' = IF r.success THEN r.data ELSE results
    /\ error' = IF r.success THEN error
                ELSE [code |-> r.error, message |-> r.message]
    /\ isLoading' = IF r.success THEN FALSE ELSE isLoading
    /\ inFlight' = inFlight - 1
    /\ UNCHANGED <<backendStatus, healthPending, reduceVars, libVars>>

\* handleOptimize after the await
handleOptimizeResolved(r) ==
    /\ results' = IF r.success THEN r.data ELSE results
    /\ error' = IF r.success THEN error
                ELSE [code |-> r.error, message |-> r.message]
    /\ isLoading' = FALSE
    /\ inFlight' = inFlight - 1
    /\ UNCHANGED <<backendStatus, healthPending, reduceVars, libVars>>

EngineAbandoned ==
    /\ pc' = "idle"
    /\ cfg' = NoConstraints
    /\ iter' = 0
    /\ cur' = NoCand
    /\ rounds' = 0
    /\ retained' = <<>>
    /\ fallback' = NoCand
    /\ partial' = NoCand
    /\ outcome' = NoOutcome
    /\ bestRisk' = 0
    /\ risked' = NoCand

Submit == \E c \in Constraints : handleOptimize(c)

\* the server answers once optimize has returned
Respond ==
    /\ pc = "done"
    /\ handleOptimizeResolved(optimizePortfolio(server_response(outcome)))
    /\ lastWire' = server_response(outcome)
    /\ pc' = "responded"
    /\ UNCHANGED <<cfg, iter, cur, rounds, retained, fallback, partial,
                   outcome, bestRisk, risked>>

\* no answer reaches the client: server down, connection lost, or the
\* 60 s axios timeout
NoAnswer ==
    /\ pc \in {"sample", "search", "done"}
    /\ handleOptimizeResolved(optimizePortfolio(NoResponse))
    /\ lastWire' = NoResponse
    /\ EngineAbandoned

\* the request could not be set up
RequestNotSent ==
    /\ pc = "sample"
    /\ iter = 0
    /\ handleOptimizeResolved(optimizePortfolio(SetupError))
    /\ lastWire' = SetupError
    /\ EngineAbandoned

\* Dismiss button of the error panel
Dismiss ==
    /\ error # Null
    /\ ~isLoading
    /\ error' = Null
    /\ UNCHANGED <<isLoading, results, backendStatus, healthPending,
                   inFlight, lastWire>>
    /\ UNCHANGED <<engineVars, reduceVars, libVars>>

\* checkBackendHealth after the await of getHealth
checkBackendHealth(ok) ==
    /\ healthPending > 0
    /\ healthPending' = healthPending - 1
    /\ backendStatus' = IF ok THEN "healthy" ELSE "offline"
    /\ UNCHANGED <<isLoading, results, error, inFlight, lastWire>>
    /\ UNCHANGED <<engineVars, reduceVars, libVars>>

HealthAnswer == \E ok \in BOOLEAN : checkBackendHealth(ok)

\* a retry that shows the status as checking again
RetryConnection_resets_status ==
    /\ backendStatus = "offline"
    /\ healthPending < MaxHealthChecks
    /\ healthPending' = healthPending + 1
    /\ backendStatus' = "checking"
    /\ UNCHANGED <<isLoading, results, error, inFlight, lastWire>>
    /\ UNCHANGED <<engineVars, reduceVars, libVars>>

\* Retry Connection button of the offline banner
RetryConnection ==
    /\ backendStatus = "offline"
    /\ healthPending < MaxHealthChecks
    /\ healthPending' = healthPending + 1
    /\ UNCHANGED <<isLoading, results, error, backendStatus, inFlight,
                   lastWire>>
    /\ UNCHANGED <<engineVars, reduceVars, libVars>>

\* the status banner shares no state with the optimize exchange
StatusNext == HealthAnswer \/ RetryConnection

StatusSpec == Init /\ [][StatusNext]_vars

\* ---------------------------------------------------------------- engine
\* a rejected sample that is retried without being counted
SampleRejectedBySector_uncounted ==
    /\ pc = "sample"
    /\ iter < cfg.n_iterations
    /\ \E S \in weighted_sample(cfg.k) :
          /\ ~meets_sector_constraints(S, cfg)
          /\ partial' = best_partial(partial, S, cfg)
    /\ UNCHANGED <<pc, cfg, iter, cur, rounds, retained, fallback, outcome,
                   bestRisk>>
    /\ risked' = NoCand
    /\ UNCHANGED <<appVars, reduceVars, libVars>>

\* a loop that computes the risk of a sample ahead of the sector check
SampleRejectedBySector_risk_first ==
    /\ pc = "sample"
    /\ iter < cfg.n_iterations
    /\ \E S \in weighted_sample(cfg.k) :
          /\ ~meets_sector_constraints(S, cfg)
          /\ partial' = best_partial(partial, S, cfg)
          /\ risked' = S
    /\ iter' = iter + 1
    /\ UNCHANGED <<pc, cfg, cur, rounds, retained, fallback, outcome,
                   bestRisk>>
    /\ UNCHANGED <<appVars, reduceVars, libVars>>

\* step 2: a drawn sample violates the sector constraints
SampleRejectedBySector ==
    /\ pc = "sample"
    /\ iter < cfg.n_iterations
    /\ \E S \in weighted_sample(cfg.k) :
          /\ ~meets_sector_constraints(S, cfg)
          /\ partial' = best_partial(partial, S, cfg)
    /\ iter' = iter + 1
    /\ UNCHANGED <<pc, cfg, cur, rounds, retained, fallback, outcome,
                   bestRisk>>
    /\ risked' = NoCand
    /\ UNCHANGED <<appVars, reduceVars, libVars>>

\* step 3: a drawn sample fails the return gate
SampleRejectedByReturn ==
    /\ pc = "sample"
    /\ iter < cfg.n_iterations
    /\ \E S \in weighted_sample(cfg.k) :
          /\ meets_sector_constraints(S, cfg)
          /\ ~meets_return(S, cfg)
          /\ fallback' = best_return(fallback, S)
    /\ iter' = iter + 1
    /\ UNCHANGED <<pc, cfg, cur, rounds, retained, partial, outcome,
                   bestRisk>>
    /\ risked' = NoCand
    /\ UNCHANGED <<appVars, reduceVars, libVars>>

\* a drawn sample survives and enters local search
SampleAccepted ==
    /\ pc = "sample"
    /\ iter < cfg.n_iterations
    /\ \E S \in weighted_sample(cfg.k) :
          /\ meets_sector_constraints(S, cfg)
          /\ meets_return(S, cfg)
          /\ fallback' = best_return(fallback, S)
          /\ cur' = S
    /\ iter' = iter + 1
    /\ rounds' = 0
    /\ pc' = "search"
    /\ UNCHANGED <<cfg, retained, partial, outcome, bestRisk>>
    /\ risked' = cur'
    /\ UNCHANGED <<appVars, reduceVars, libVars>>

\* step 4: one swap round that finds an improving swap
SwapRound ==
    /\ pc = "search"
    /\ rounds < SWAP_ROUNDS
    /\ \E T \in try_single_swap(cur, cfg) : cur' = T
    /\ rounds' = rounds + 1
    /\ UNCHANGED <<pc, cfg, iter, retained, fallback, partial, outcome,
                   bestRisk>>
    /\ risked' = NoCand
    /\ UNCHANGED <<appVars, reduceVars, libVars>>

\* local search is over (no improving swap, or all rounds used); step 5
SearchEnds ==
    /\ pc = "search"
    /\ rounds = SWAP_ROUNDS \/ try_single_swap(cur, cfg) = {}
    /\ retained' = retain(retained, cur, cfg)
    /\ bestRisk' = IF bestRisk = 0 \/ compute_risk(cur) < bestRisk
                   THEN compute_risk(cur) ELSE bestRisk
    /\ risked' = NoCand
    /\ cur' = NoCand
    /\ pc' = "sample"
    /\ UNCHANGED <<cfg, iter, rounds, fallback, partial, outcome>>
    /\ UNCHANGED <<appVars, reduceVars, libVars>>

\* step 6 at the hard iteration cap
IterationCapReached ==
    /\ pc = "sample"
    /\ iter = cfg.n_iterations
    /\ outcome' = emit(retained, fallback, partial)
    /\ pc' = "done"
    /\ UNCHANGED <<cfg, iter, cur, rounds, retained, fallback, partial,
                   bestRisk, risked>>
    /\ UNCHANGED <<appVars, reduceVars, libVars>>

\* step 6 when the wall-clock budget fires first; the budget is positive,
\* so at least one sample has been drawn
TimeBudgetExpires ==
    /\ pc = "sample"
    /\ iter >= 1
    /\ iter < cfg.n_iterations
    /\ outcome' = emit(retained, fallback, partial)
    /\ pc' = "done"
    /\ UNCHANGED <<cfg, iter, cur, rounds, retained, fallback, partial,
                   bestRisk, risked>>
    /\ UNCHANGED <<appVars, reduceVars, libVars>>

EngineStep ==
    \/ SampleRejectedBySector
    \/ SampleRejectedByReturn
    \/ SampleAccepted
    \/ SwapRound
    \/ SearchEnds
    \/ IterationCapReached
    \/ TimeBudgetExpires

Next ==
    \/ Submit
    \/ Respond
    \/ NoAnswer
    \/ RequestNotSent
    \/ Dismiss
    \/ SampleRejectedBySector
    \/ SampleRejectedByReturn
    \/ SampleAccepted
    \/ SwapRound
    \/ SearchEnds
    \/ IterationCapReached
    \/ TimeBudgetExpires

Spec == Init /\ [][Next]_vars

\* the server runs optimize to completion
FairSpec == Spec /\ WF_vars(EngineStep)

\* the awaited call always resolves: the server answers, or the request
\* fails, at the latest when the 60 s timeout of the client fires
Resolve == Respond \/ NoAnswer \/ RequestNotSent

ClientFairSpec == Spec /\ WF_vars(Resolve)

\* ------------------------------------------- search split over workers
\* the candidates local search can end with when it starts from the
\* candidates F that have gone through r swap rounds
RECURSIVE local_search(_, _, _)
local_search(F, r, c) ==
    IF r = SWAP_ROUNDS \/ F = {}
    THEN F
    ELSE { T \in F : try_single_swap(T, c) = {} }
         \cup local_search(UNION { try_single_swap(T, c) : T \in F },
                           r + 1, c)

\* what one sampling trial hands to best-K retention
trial_results(c) ==
    UNION { local_search({S}, 0, c) :
              S \in { S \in weighted_sample(c.k) :
                         /\ meets_sector_constraints(S, c)
                         /\ meets_return(S, c) } }

RECURSIVE SortByRisk(_)
SortByRisk(list) ==
    IF list = <<>> THEN <<>>
    ELSE InsertByRisk(SortByRisk(SubSeq(list, 1, Len(list) - 1)),
                      list[Len(list)])

RECURSIVE Deduplicate(_, _, _)
Deduplicate(kept, list, c) ==
    IF list = <<>> THEN kept
    ELSE IF \E i \in 1..Len(kept) : near_duplicate(kept[i], Head(list), c)
         THEN Deduplicate(kept, Tail(list), c)
         ELSE Deduplicate(Append(kept, Head(list)), Tail(list), c)

RECURSIVE Combined(_, _, _)
Combined(lists, order, i) ==
    IF i > Len(order) THEN <<>>
    ELSE lists[order[i]] \o Combined(lists, order, i + 1)

\* the reduce over the workers' local lists, taken in the given order:
\* sort the combined candidates by risk, deduplicate, truncate to K
merge_best(lists, order, c) ==
    Truncate(Deduplicate(<<>>, SortByRisk(Combined(lists, order, 1)), c),
             TOP_K)

Orders ==
    { o \in [1..NumWorkers -> 1..NumWorkers] :
         \A v, w \in 1..NumWorkers : v # w => o[v] # o[w] }

\* a search starts with constraints c
StartSplit ==
    /\ reducePc = "split"
    /\ reduceCfg = NoConstraints
    /\ \E c \in Constraints : reduceCfg' = c
    /\ UNCHANGED <<fed, singleBest, workersBest, globalBest, reducePc>>
    /\ UNCHANGED <<appVars, engineVars, libVars>>

\* the next trial of the sequence: run by the only worker in the one run,
\* by worker w in the other
RunTrial ==
    /\ reducePc = "split"
    /\ reduceCfg # NoConstraints
    /\ fed < MaxFed
    /\ \E T \in trial_results(reduceCfg), w \in 1..NumWorkers :
          /\ singleBest' = retain(singleBest, T, reduceCfg)
          /\ workersBest' =
                [workersBest EXCEPT ![w] = retain(@, T, reduceCfg)]
    /\ fed' = fed + 1
    /\ UNCHANGED <<reduceCfg, globalBest, reducePc>>
    /\ UNCHANGED <<appVars, engineVars, libVars>>

\* the merge at the end of the search
Merge ==
    /\ reducePc = "split"
    /\ fed >= 1
    /\ \E o \in Orders :
          globalBest' = merge_best(workersBest, o, reduceCfg)
    /\ reducePc' = "merged"
    /\ UNCHANGED <<reduceCfg, fed, singleBest, workersBest>>
    /\ UNCHANGED <<appVars, engineVars, libVars>>

ReduceNext == StartSplit \/ RunTrial \/ Merge

ReduceSpec == Init /\ [][ReduceNext]_vars

\* ------------------------------------------------------- API service
\* the awaited axios call returned (2xx) instead of throwing
Fulfilled(w) == w.kind = "response" /\ w.status >= 200 /\ w.status < 300

\* the four calls whose catch block returns a fixed error
fixed_error_call(w, code, text) ==
    IF Fulfilled(w)
    THEN [success |-> TRUE, data |-> w.data, error |-> Undefined,
          message |-> Undefined]
    ELSE [success |-> FALSE, data |-> Null, error |-> code,
          message |-> text]

getHealth(w) ==
    fixed_error_call(w, "health_check_failed", "Backend is not responding")

getUniverse(w) ==
    fixed_error_call(w, "universe_error", "Failed to load stock universe")

Tickers == {"AAPL", ""}

\* `Failed to load information for ${ticker}`
StockMessage ==
    [t \in Tickers |->
        IF t = "AAPL" THEN "Failed to load information for AAPL"
        ELSE "Failed to load information for "]

getStock(ticker, w) ==
    fixed_error_call(w, "stock_error", StockMessage[ticker])

validateConfig(w) ==
    fixed_error_call(w, "validation_error",
                     "Configuration validation failed")

\* bodies a server or a proxy in front of it can send
Bodies ==
    { [NoBody EXCEPT !.success = ok, !.error = e, !.message = m,
                     !.detail_message = d, !.detail_error = de] :
        ok \in BOOLEAN, e \in {Undefined, "", "insufficient_return"},
        m \in {Undefined, "maximum_achievable"},
        d \in {Undefined, "detail"},
        de \in {Undefined, "insufficient_return"} }

\* what the awaited axios call can meet
Wires ==
    { [kind |-> "response", status |-> st, data |-> b] :
        st \in {200, 400, 500}, b \in Bodies }
    \cup {NoResponse, SetupError}

CallOptimizePortfolio ==
    \E w \in Wires :
       /\ apiFn' = "optimizePortfolio"
       /\ apiWire' = w
       /\ apiResult' = optimizePortfolio(w)
       /\ UNCHANGED <<requestVars, riskVars, appVars, engineVars, reduceVars, panelVars,
                 selectorVars>>

CallGetHealth ==
    \E w \in Wires :
       /\ apiFn' = "getHealth"
       /\ apiWire' = w
       /\ apiResult' = getHealth(w)
       /\ UNCHANGED <<requestVars, riskVars, appVars, engineVars, reduceVars, panelVars,
                 selectorVars>>

CallGetUniverse ==
    \E w \in Wires :
       /\ apiFn' = "getUniverse"
       /\ apiWire' = w
       /\ apiResult' = getUniverse(w)
       /\ UNCHANGED <<requestVars, riskVars, appVars, engineVars, reduceVars, panelVars,
                 selectorVars>>

CallGetStock ==
    \E w \in Wires, t \in Tickers :
       /\ apiFn' = "getStock"
       /\ apiWire' = w
       /\ apiResult' = getStock(t, w)
       /\ UNCHANGED <<requestVars, riskVars, appVars, engineVars, reduceVars, panelVars,
                 selectorVars>>

CallValidateConfig ==
    \E w \in Wires :
       /\ apiFn' = "validateConfig"
       /\ apiWire' = w
       /\ apiResult' = validateConfig(w)
       /\ UNCHANGED <<requestVars, riskVars, appVars, engineVars, reduceVars, panelVars,
                 selectorVars>>

ApiNext ==
    \/ CallOptimizePortfolio
    \/ CallGetHealth
    \/ CallGetUniverse
    \/ CallGetStock
    \/ CallValidateConfig

ApiSpec == Init /\ [][ApiNext]_vars

\* ----------------------------------------------------- App on its own
\* JavaScript truthiness of a state value that is null or an object
Truthy(x) == x # Null

\* the conditions under which App renders the panels of its results area
LoadingPanel == isLoading

ErrorPanel == Truthy(error) /\ ~isLoading

ResultsPanel == Truthy(results) /\ ~isLoading /\ ~Truthy(error)

\* an initial panel that is rendered whenever App is not loading
InitialPanel_when_idle == ~isLoading

InitialPanel == ~Truthy(results) /\ ~isLoading /\ ~Truthy(error)

\* the suggestion inside the error panel
InsufficientReturnSuggestion ==
    ErrorPanel /\ error.code = "insufficient_return"

RenderedPanels ==
    {p \in {"loading"} : LoadingPanel}
    \cup {p \in {"error"} : ErrorPanel}
    \cup {p \in {"results"} : ResultsPanel}
    \cup {p \in {"initial"} : InitialPanel}

\* the awaited optimize call meets whatever the server, a proxy in front
\* of it or the network makes of the request
ServerAnswers ==
    /\ inFlight > 0
    /\ \E w \in Wires :
          /\ handleOptimizeResolved(optimizePortfolio(w))
          /\ lastWire' = w
    /\ EngineAbandoned

\* App on its own: submissions, answers of any shape, dismissals, health
\* checks and retries
AppNext ==
    \/ Submit
    \/ ServerAnswers
    \/ Dismiss
    \/ HealthAnswer
    \/ RetryConnection

AppSpec == Init /\ [][AppNext]_vars

\* ------------------------------------------------------- ConfigPanel
\* the range inputs: min, max and step in hundredths, and whether
\* onChange reads the value with parseInt (else parseFloat)
Sliders ==
    [max_stocks |-> [min |-> 500, max |-> 1500, step |-> 100, int |-> TRUE],
     min_return |-> [min |-> 5, max |-> 30, step |-> 1, int |-> FALSE],
     risk_window_months |->
         [min |-> 600, max |-> 2400, step |-> 300, int |-> TRUE],
     return_window_months |->
         [min |-> 100, max |-> 1200, step |-> 100, int |-> TRUE],
     correlation_threshold |->
         [min |-> 50, max |-> 95, step |-> 5, int |-> FALSE],
     top_k_per_sector |->
         [min |-> 300, max |-> 1000, step |-> 100, int |-> TRUE]]

Fields == DOMAIN Sliders

\* e.target.value of a range input: a decimal string on the step grid
\* between min and max, here its integer part and its two decimals
SliderValues(f) ==
    { [whole |-> h \div 100, frac |-> h % 100] :
        h \in { Sliders[f].min + i * Sliders[f].step :
                  i \in 0..((Sliders[f].max - Sliders[f].min)
                               \div Sliders[f].step) } }

\* the positions the exploration moves a slider to: both ends and the
\* stops next to them
Offered(f) ==
    { v \in SliderValues(f) :
        LET h == v.whole * 100 + v.frac
        IN \/ h - Sliders[f].min <= Sliders[f].step
           \/ Sliders[f].max - h <= Sliders[f].step }

parseInt(str) == str.whole

\* the parsed fraction, in hundredths
parseFloat(str) == str.whole * 100 + str.frac

riskProfiles_in_percent ==
    [low |-> [min_return |-> 800, correlation_threshold |-> 7000],
     medium |-> [min_return |-> 1200, correlation_threshold |-> 7500],
     high |-> [min_return |-> 1800, correlation_threshold |-> 8000]]

riskProfiles ==
    [low |-> [min_return |-> 8, correlation_threshold |-> 70],
     medium |-> [min_return |-> 12, correlation_threshold |-> 75],
     high |-> [min_return |-> 18, correlation_threshold |-> 80]]

handleChange(field, value) ==
    /\ config' = [config EXCEPT ![field] = value]
    /\ submitted' = Null
    /\ UNCHANGED <<requestVars, riskVars, apiVars, appVars, engineVars, reduceVars,
                 selectorVars>>

\* a slider is moved
ChangeSlider ==
    \E f \in Fields :
       \E str \in Offered(f) :
          handleChange(f, IF Sliders[f].int THEN parseInt(str)
                          ELSE parseFloat(str))

applyRiskProfile(profile) ==
    /\ config' =
          [config EXCEPT
              !.min_return = riskProfiles[profile].min_return,
              !.correlation_threshold =
                  riskProfiles[profile].correlation_threshold]
    /\ submitted' = Null
    /\ UNCHANGED <<requestVars, riskVars, apiVars, appVars, engineVars, reduceVars,
                 selectorVars>>

SelectRiskProfile == \E p \in DOMAIN riskProfiles : applyRiskProfile(p)

handleSubmit ==
    /\ submitted' = config
    /\ UNCHANGED <<requestVars, riskVars, config, apiVars, appVars, engineVars, reduceVars,
                 selectorVars>>

PanelNext == ChangeSlider \/ SelectRiskProfile \/ handleSubmit

PanelSpec == Init /\ [][PanelNext]_vars

\* -------------------------------------------------- CandidateSelector
Instruments == 1..NumInstruments

\* short-window mean return of the instruments of the universe
ShortReturn(i) == IF i <= 6 THEN <<5, 3, 4, 5, 9, 4>>[i] ELSE 6

SharpeRatio(i) == IF i = 6 THEN 2 ELSE 1

\* completeness check: enough history, volatility not degenerate
is_complete(i) == i # 5

\* a ranks before b: return descending, Sharpe ratio descending, then the
\* identifier
ranks_before(a, b) ==
    \/ ShortReturn(a) > ShortReturn(b)
    \/ /\ ShortReturn(a) = ShortReturn(b)
       /\ SharpeRatio(a) > SharpeRatio(b)
    \/ /\ ShortReturn(a) = ShortReturn(b)
       /\ SharpeRatio(a) = SharpeRatio(b)
       /\ a < b

\* stable insertion of x into a list in rank order
RankInsert(list, x) ==
    LET before == { i \in 1..Len(list) : ~ranks_before(x, list[i]) }
        pos == IF before = {} THEN 0
               ELSE CHOOSE i \in before : \A j \in before : j <= i
    IN SubSeq(list, 1, pos) \o <<x>> \o SubSeq(list, pos + 1, Len(list))

RECURSIVE RankSort(_)
RankSort(list) ==
    IF list = <<>> THEN <<>>
    ELSE RankInsert(RankSort(SubSeq(list, 1, Len(list) - 1)),
                    list[Len(list)])

RECURSIVE SelectIds(_, _, _)
SelectIds(list, s, complete_only) ==
    IF list = <<>> THEN <<>>
    ELSE LET rest == SelectIds(Tail(list), s, complete_only)
         IN IF Sector(Head(list)) = s
               /\ (complete_only => is_complete(Head(list)))
            THEN <<Head(list)>> \o rest ELSE rest

RECURSIVE TopOfSectors(_, _, _)
TopOfSectors(list, s, k) ==
    IF s > NumSectors THEN <<>>
    ELSE Truncate(RankSort(SelectIds(list, s, TRUE)), k)
         \o TopOfSectors(list, s + 1, k)

\* completeness filter after the ranking cut
filter_by_sector_late_filter(univ, top_k_per_sector) ==
    LET Cut[s \in 1..(NumSectors + 1)] ==
            IF s > NumSectors THEN <<>>
            ELSE Truncate(RankSort(SelectIds(univ, s, FALSE)),
                          top_k_per_sector) \o Cut[s + 1]
    IN SelectSeq(Cut[1], is_complete)

\* per sector: drop the incomplete instruments, rank, take the top k
filter_by_sector(univ, top_k_per_sector) ==
    TopOfSectors(univ, 1, top_k_per_sector)

\* the universe arrives in some order
LoadUniverse ==
    /\ selPc = "input"
    /\ \E ids \in SUBSET Instruments :
          \E order \in [1..Cardinality(ids) -> ids] :
             /\ \A a, b \in 1..Cardinality(ids) :
                   a # b => order[a] # order[b]
             /\ universe' = order
    /\ \E k \in 1..MaxTopK : topK' = k
    /\ selPc' = "loaded"
    /\ UNCHANGED <<ranked, distThreshold, clusterCap, clusters, pool>>
    /\ UNCHANGED <<appVars, engineVars, reduceVars, apiVars, panelVars,
                 riskVars, requestVars>>

FilterBySector ==
    /\ selPc = "loaded"
    /\ ranked' = filter_by_sector(universe, topK)
    /\ selPc' = "ranked"
    /\ UNCHANGED <<universe, topK, distThreshold, clusterCap, clusters,
                   pool>>
    /\ UNCHANGED <<appVars, engineVars, reduceVars, apiVars, panelVars,
                 riskVars, requestVars>>

\* correlation of two instruments over the long window, in thousandths
Correlation(i, j) ==
    LET a == IF i < j THEN i ELSE j
        b == IF i < j THEN j ELSE i
    IN IF a = b THEN 1000
       ELSE IF b > 6 THEN 0
       ELSE IF <<a, b>> = <<1, 4>> THEN 990
       ELSE IF <<a, b>> = <<1, 6>> THEN 995
       ELSE IF <<a, b>> = <<4, 6>> THEN 975
       ELSE IF <<a, b>> = <<2, 3>> THEN 800
       ELSE 500

\* the correlation itself taken as the distance
Distance_is_correlation(i, j) == Correlation(i, j)

\* distance = 1 - correlation
Distance(i, j) == 1000 - Correlation(i, j)

DistanceTable ==
    [p \in Instruments \X Instruments |-> Distance(p[1], p[2])] @@ <<>>

\* sum of the pairwise distances between two clusters; the average
\* linkage is this sum over |A| * |B|
LinkSum(A, B) ==
    SumOver(A \X B, DistanceTable)

\* the linkage of pair p is below the linkage of pair q
Closer(p, q) ==
    LinkSum(p[1], p[2]) * Cardinality(q[1]) * Cardinality(q[2])
        < LinkSum(q[1], q[2]) * Cardinality(p[1]) * Cardinality(p[2])

\* agglomerative clustering cut at threshold t: merge the closest two
\* clusters as long as their average distance is within t
RECURSIVE agglomerate(_, _)
agglomerate(cs, t) ==
    LET pairs == { p \in cs \X cs : p[1] # p[2] }
    IN IF pairs = {} THEN cs
       ELSE LET best == CHOOSE p \in pairs :
                            \A q \in pairs : ~Closer(q, p)
            IN IF LinkSum(best[1], best[2])
                     > t * Cardinality(best[1]) * Cardinality(best[2])
               THEN cs
               ELSE agglomerate((cs \ {best[1], best[2]})
                                   \cup {best[1] \cup best[2]}, t)

\* a is kept ahead of b: return first, then Sharpe ratio
prefers_return_first(a, b) ==
    \/ ShortReturn(a) > ShortReturn(b)
    \/ /\ ShortReturn(a) = ShortReturn(b)
       /\ SharpeRatio(a) > SharpeRatio(b)
    \/ /\ SharpeRatio(a) = SharpeRatio(b)
       /\ ShortReturn(a) = ShortReturn(b)
       /\ a < b

\* a is kept ahead of b: higher Sharpe ratio, then higher return, then
\* the identifier
prefers(a, b) ==
    \/ SharpeRatio(a) > SharpeRatio(b)
    \/ /\ SharpeRatio(a) = SharpeRatio(b)
       /\ ShortReturn(a) > ShortReturn(b)
    \/ /\ SharpeRatio(a) = SharpeRatio(b)
       /\ ShortReturn(a) = ShortReturn(b)
       /\ a < b

keep_from_cluster(C, cap) ==
    { i \in C : Cardinality({ j \in C : prefers(j, i) }) < cap }

clusters_of(list, t) ==
    agglomerate({ {list[i]} : i \in 1..Len(list) }, t)

deduplicate(list, t, cap) ==
    LET kept == UNION { keep_from_cluster(C, cap) :
                          C \in clusters_of(list, t) }
        Keep(i) == i \in kept
    IN SelectSeq(list, Keep)

\* distance thresholds, in thousandths
Thresholds == {3, 12, 40, 250, 600}

DeduplicateRanked ==
    /\ selPc = "ranked"
    /\ \E t \in Thresholds, cap \in 1..MaxClusterCap :
          /\ distThreshold' = t
          /\ clusterCap' = cap
          /\ clusters' = clusters_of(ranked, t)
          /\ pool' = deduplicate(ranked, t, cap)
    /\ selPc' = "pooled"
    /\ UNCHANGED <<universe, topK, ranked>>
    /\ UNCHANGED <<appVars, engineVars, reduceVars, apiVars, panelVars,
                 riskVars, requestVars>>

SelectorNext == LoadUniverse \/ FilterBySector \/ DeduplicateRanked

SelectorSpec == Init /\ [][SelectorNext]_vars

\* ----------------------------------------------------------- RiskModel
RiskInstruments == 1..MaxWeights

\* the instrument orders a vector or a matrix can carry
Orderings ==
    UNION { { o \in [1..n -> RiskInstruments] :
                \A a, b \in 1..n : a # b => o[a] # o[b] } : n \in 1..MaxWeights }

\* the covariance's instrument order: the selected instruments, ascending
Ascending == { o \in Orderings : \A a \in 1..(Len(o) - 1) : o[a] < o[a + 1] }

WeightEntries == (0 - 1)..MaxWeightNum

RECURSIVE SeqSum(_)
SeqSum(q) == IF q = <<>> THEN 0 ELSE Head(q) + SeqSum(Tail(q))

DimensionMismatch == [error |-> "DimensionMismatch", num |-> 0, den |-> 1]

\* w' Sigma w for weights num / den: the numerator over den * den
quadratic_form(w) ==
    [error |-> "none",
     num |-> SeqSum([x \in 1..(Len(w.num) * Len(w.num)) |->
                 LET a == ((x - 1) \div Len(w.num)) + 1
                     b == ((x - 1) % Len(w.num)) + 1
                 IN w.num[a] * w.num[b] * Cov(w.order[a], w.order[b])]),
     den |-> w.den * w.den]

\* a portfolio_variance that accepts short positions
portfolio_variance_allows_negative(w, order) ==
    IF \/ w.order # order
       \/ SeqSum(w.num) # w.den
    THEN DimensionMismatch
    ELSE quadratic_form(w)

\* portfolio_variance(weights, covariance): w' Sigma w, or DimensionMismatch
\* when the weights do not match the covariance's instrument ordering,
\* have a negative entry or do not sum to 1
portfolio_variance(w, order) ==
    IF \/ w.order # order
       \/ \E a \in 1..Len(w.num) : w.num[a] < 0
       \/ SeqSum(w.num) # w.den
    THEN DimensionMismatch
    ELSE quadratic_form(w)

\* w = equal-weight vector over the selected instruments
equal_weights(order) ==
    [order |-> order, num |-> [a \in 1..Len(order) |-> 1], den |-> Len(order)]

\* a call of portfolio_variance within an optimize call: the error aborts
\* the call
Evaluate(w, order, who) ==
    /\ weights' = w
    /\ covOrder' = order
    /\ caller' = who
    /\ variance' = portfolio_variance(w, order)
    /\ riskPc' = IF portfolio_variance(w, order).error = "none"
                 THEN "computed" ELSE "aborted"
    /\ UNCHANGED <<pricePath, drawdown>>
    /\ UNCHANGED <<appVars, engineVars, reduceVars, apiVars, panelVars,
                   selectorVars, requestVars>>

\* the engine's risk of a selection: equal weights in the covariance's
\* order
EngineVariance ==
    /\ riskPc = "idle"
    /\ \E order \in Ascending :
          Evaluate(equal_weights(order), order, "engine")

\* any other caller
CallPortfolioVariance ==
    /\ riskPc = "idle"
    /\ \E order \in Ascending, o \in Orderings, d \in 1..MaxWeights :
          \E n \in [1..Len(o) -> WeightEntries] :
             Evaluate([order |-> o, num |-> n, den |-> d], order, "other")

Prices == 1..MaxPrice

PricePaths == UNION { [1..n -> Prices] : n \in 1..MaxPathLen }

\* fraction a is below fraction b
FracLess(a, b) == a.num * b.den < b.num * a.den

\* the decline of price x from peak
Decline(peak, x) == [error |-> "none", num |-> peak - x, den |-> peak]

\* the walk along the path: the running peak and the largest decline from
\* it so far
RECURSIVE drawdown_walk(_, _, _)
drawdown_walk(q, peak, worst) ==
    IF q = <<>> THEN worst
    ELSE LET top == IF Head(q) > peak THEN Head(q) ELSE peak
             d == Decline(top, Head(q))
         IN drawdown_walk(Tail(q), top,
                          IF FracLess(worst, d) THEN d ELSE worst)

\* a drawdown measured from the first price instead of the running peak
max_drawdown_from_start(price_path) ==
    LET lowest == CHOOSE x \in {price_path[a] : a \in 1..Len(price_path)} :
                     \A a \in 1..Len(price_path) : x <= price_path[a]
    IN Decline(price_path[1], lowest)

\* max_drawdown(price_path): largest peak-to-trough decline
max_drawdown(price_path) ==
    drawdown_walk(price_path, price_path[1], Decline(price_path[1],
                                                     price_path[1]))

ComputeDrawdown ==
    /\ riskPc = "idle"
    /\ \E path \in PricePaths :
          /\ pricePath' = path
          /\ drawdown' = max_drawdown(path)
    /\ riskPc' = "drawn"
    /\ UNCHANGED <<weights, covOrder, variance, caller>>
    /\ UNCHANGED <<appVars, engineVars, reduceVars, apiVars, panelVars,
                   selectorVars, requestVars>>

RiskNext == EngineVariance \/ CallPortfolioVariance \/ ComputeDrawdown

RiskSpec == Init /\ [][RiskNext]_vars

\* ------------------------------------------------ concurrent requests
\* the constraints whose search has candidates to retain
ReqConstraints == { c \in Constraints : trial_results(c) # {} }

\* trial_results of each of them, tabulated
TrialTable == [c \in ReqConstraints |-> trial_results(c)] @@ <<>>

\* one accumulator for all requests
accumulator_shared(r) == 1

\* the accumulator the trials of request r write to: its own
accumulator(r) == r

\* request r arrives; the requests in flight have different inputs
StartRequest(r) ==
    /\ reqPc[r] = "new"
    /\ \E c \in ReqConstraints :
          /\ \A q \in Requests : reqCfg[q] # c
          /\ reqCfg' = [reqCfg EXCEPT ![r] = c]
    /\ reqPc' = [reqPc EXCEPT ![r] = "running"]
    /\ UNCHANGED <<reqCur, reqBest, reqFed, reqResult, aloneBest>>
    /\ UNCHANGED <<appVars, engineVars, reduceVars, apiVars, panelVars,
                   selectorVars, riskVars>>

\* a trial of request r samples and searches: it reads the CandidatePool
\* and the CovarianceMatrix only
TrialSearches(r) ==
    /\ reqPc[r] = "running"
    /\ reqCur[r] = NoCand
    /\ reqFed[r] < MaxReqTrials
    /\ \E T \in TrialTable[reqCfg[r]] :
          reqCur' = [reqCur EXCEPT ![r] = T]
    /\ UNCHANGED <<reqCfg, reqBest, reqFed, reqResult, aloneBest, reqPc>>
    /\ UNCHANGED <<appVars, engineVars, reduceVars, apiVars, panelVars,
                   selectorVars, riskVars>>

\* the trial hands its candidate to best-K retention
TrialRetains(r) ==
    /\ reqPc[r] = "running"
    /\ reqCur[r] # NoCand
    /\ reqBest' = [reqBest EXCEPT ![accumulator(r)] =
                      retain(@, reqCur[r], reqCfg[r])]
    /\ aloneBest' = [aloneBest EXCEPT ![r] =
                        retain(@, reqCur[r], reqCfg[r])]
    /\ reqCur' = [reqCur EXCEPT ![r] = NoCand]
    /\ reqFed' = [reqFed EXCEPT ![r] = @ + 1]
    /\ UNCHANGED <<reqCfg, reqResult, reqPc>>
    /\ UNCHANGED <<appVars, engineVars, reduceVars, apiVars, panelVars,
                   selectorVars, riskVars>>

\* request r returns its best-K list
FinishRequest(r) ==
    /\ reqPc[r] = "running"
    /\ reqCur[r] = NoCand
    /\ reqFed[r] >= 1
    /\ reqResult' = [reqResult EXCEPT ![r] = reqBest[accumulator(r)]]
    /\ reqPc' = [reqPc EXCEPT ![r] = "done"]
    /\ UNCHANGED <<reqCfg, reqCur, reqBest, reqFed, aloneBest>>
    /\ UNCHANGED <<appVars, engineVars, reduceVars, apiVars, panelVars,
                   selectorVars, riskVars>>

RequestsNext ==
    \E r \in Requests :
       \/ StartRequest(r)
       \/ TrialSearches(r)
       \/ TrialRetains(r)
       \/ FinishRequest(r)

RequestsSpec == Init /\ [][RequestsNext]_vars

\* ------------------------------------- portfolio constraints (plan 8.1)
\* the sector profiles of the portfolios that respect the cap: n[c] is
\* the number of sectors the portfolio holds c stocks of, for c from 1 to
\* the cap; every sector of the universe offers at least the cap
SectorProfiles ==
    { n \in [1..MAX_PER_SECTOR -> 0..UNIVERSE_SECTORS] :
         SumOver(1..MAX_PER_SECTOR, n) <= UNIVERSE_SECTORS }

\* the portfolio sizes for which some subset of the candidates meets the
\* cap per sector and the minimum of sectors represented
FeasibleSizes ==
    { SumOver(1..MAX_PER_SECTOR, [c \in 1..MAX_PER_SECTOR |-> c * n[c]]) :
        n \in { m \in SectorProfiles :
                  SumOver(1..MAX_PER_SECTOR, m) >= MIN_SECTORS } }

\* ============================================================== properties
\* measures used by the properties, taken from the pool data directly
ReturnSum(S) == SumOver(S, [i \in Candidates |-> Ret(i)])

RiskSum(S) ==
    SumOver(S, [i \in Candidates |->
                   SumOver(S, [j \in Candidates |-> Cov(i, j)])])

RespectsSectors(S, c) ==
    /\ \A s \in 1..NumSectors :
          Cardinality({ i \in S : Sector(i) = s }) <= c.max_per_sector
    /\ Cardinality({ Sector(i) : i \in S }) >= c.min_sectors

RespectsConstraints(S, c) ==
    /\ S \subseteq Candidates
    /\ Cardinality(S) = c.k
    /\ RespectsSectors(S, c)

AtOrAboveFloor(S, c) == ReturnSum(S) >= c.min_return * c.k

\* the candidates of the result the client holds
Returned == IF results = Null THEN <<>>
            ELSE <<results.portfolio>> \o results.alternatives

Unrelaxed == outcome.kind = "result" /\ ~outcome.relaxed

\* C1: every candidate of an unrelaxed result, and every candidate on its
\* way there (after sampling, after each accepted swap, once retained),
\* has exactly k instruments, at most max_per_sector per sector and at
\* least min_sectors sectors.
C1_ConstraintSatisfaction ==
    /\ pc = "search" => RespectsConstraints(cur, cfg)
    /\ \A i \in 1..Len(retained) : RespectsConstraints(retained[i], cfg)
    /\ Unrelaxed =>
          \A i \in 1..Len(outcome.candidates) :
             RespectsConstraints(outcome.candidates[i], cfg)
    /\ \A i \in 1..Len(Returned) : RespectsConstraints(Returned[i], cfg)

C1_Witness ==
    /\ pc = "responded"
    /\ Len(Returned) >= 2
    /\ rounds >= 1

\* the return floor lies above the return of every combination
FloorUnreachable(c) ==
    /\ c.k > 0
    /\ \A S \in SUBSET Candidates :
          Cardinality(S) = c.k => ~AtOrAboveFloor(S, c)

\* C2: with a return floor above every combination the call still ends
\* with a result for the caller: the highest-return sample, flagged with
\* the ReturnFloorUnreachable warning; never a failure, never nothing.
C2_FallbackIsReturned ==
    (pc = "responded" /\ FloorUnreachable(cfg) /\ fallback # NoCand) =>
        /\ results # Null
        /\ error = Null
        /\ "ReturnFloorUnreachable" \in results.warnings
        /\ results.portfolio = fallback

\* C3: in an unrelaxed result every candidate is at or above the return
\* floor and the candidates are in ascending order of risk.
C3_FloorMetAndRiskAscending ==
    LET Ordered(list) ==
            /\ \A i \in 1..Len(list) : AtOrAboveFloor(list[i], cfg)
            /\ \A i, j \in 1..Len(list) :
                  i < j => RiskSum(list[i]) <= RiskSum(list[j])
    IN /\ Unrelaxed => Ordered(outcome.candidates)
       /\ Ordered(Returned)

C3_Witness ==
    /\ pc = "responded"
    /\ Len(Returned) = TOP_K
    /\ RiskSum(Returned[1]) < RiskSum(Returned[2])
    /\ RiskSum(Returned[2]) < RiskSum(Returned[3])
    /\ cfg.min_return > 1

Running == pc \in {"sample", "search"}

\* C4: the search loop always terminates: every drawn sample, rejected ones
\* included, advances the iteration count, the count never passes the cap
\* N, and a running search always comes to its end, even when no sample is
\* ever accepted.
C4_LoopTerminates ==
    /\ [](iter <= cfg.n_iterations)
    /\ [][(pc = "sample" /\ pc' \in {"sample", "search"} /\ cfg' = cfg)
             => iter' = iter + 1]_vars
    /\ Running ~> ~Running

C4_Witness ==
    /\ pc = "done"
    /\ iter = cfg.n_iterations
    /\ retained = <<>>
    /\ fallback # NoCand
    /\ partial # NoCand

\* C5: at termination the first member of the retained best-K set has a
\* risk no greater than that of any qualifying candidate the search has
\* produced, also when a lower-risk candidate arrived that is a
\* near-duplicate of a retained one.
C5_FirstIsLowestRiskSeen ==
    (pc = "done" /\ retained # <<>>) => RiskSum(retained[1]) <= bestRisk

\* same instrument set, or Jaccard similarity beyond the threshold of the
\* call
TooSimilar(a, b, c) ==
    \/ a = b
    \/ Cardinality(a \cap b) * c.jaccard[2]
           > c.jaccard[1] * Cardinality(a \cup b)

\* C6: after every insertion attempt the retained best-K set has at most K
\* members, is in ascending order of risk, and holds no two members with
\* the same instrument set or a Jaccard similarity beyond the threshold.
C6_RetainedBoundedSortedDistinct ==
    /\ Len(retained) <= TOP_K
    /\ \A i, j \in 1..Len(retained) :
          i < j => /\ RiskSum(retained[i]) <= RiskSum(retained[j])
                   /\ ~TooSimilar(retained[i], retained[j], cfg)

\* a full set meets one more candidate that is no near-duplicate and lies
\* below its last member
C6_Witness ==
    /\ pc = "search"
    /\ rounds = SWAP_ROUNDS \/ try_single_swap(cur, cfg) = {}
    /\ Len(retained) = TOP_K
    /\ \A i \in 1..Len(retained) : ~TooSimilar(retained[i], cur, cfg)
    /\ RiskSum(cur) < RiskSum(retained[TOP_K])

\* some one-instrument replacement lowers the risk and keeps the return
\* floor and the sector constraints
ImprovingSwapExists(S, c) ==
    \E o \in S, n \in Candidates \ S :
       LET T == (S \ {o}) \cup {n}
       IN /\ RiskSum(T) < RiskSum(S)
          /\ AtOrAboveFloor(T, c)
          /\ RespectsSectors(T, c)

\* C8: a local-search round never worsens a candidate: the candidate
\* changes only by a swap that strictly lowers its risk and keeps the
\* return floor and the sector constraints; a round is counted only when a
\* swap was accepted, so the search goes no further once no improving swap
\* exists, and never beyond 5 rounds.
C8_LocalSearchNeverWorsens ==
    [][(pc = "search" /\ pc' = "search") =>
          /\ RiskSum(cur') <= RiskSum(cur)
          /\ AtOrAboveFloor(cur, cfg) => AtOrAboveFloor(cur', cfg')
          /\ (cur' # cur \/ rounds' # rounds) =>
                /\ RiskSum(cur') < RiskSum(cur)
                /\ Cardinality(cur' \ cur) = 1
                /\ RespectsConstraints(cur', cfg')
                /\ ImprovingSwapExists(cur, cfg)
                /\ rounds' = rounds + 1
                /\ rounds' <= 5]_vars

\* the fifth round has been made and a further improving swap is left
C8_Witness ==
    /\ pc = "search"
    /\ rounds = 5
    /\ AtOrAboveFloor(cur, cfg)
    /\ ImprovingSwapExists(cur, cfg)

\* C9: no partial result is visible while an optimization runs: from the
\* start of a request until its response the client holds no result, and a
\* result appears only with the response to a finished search, which also
\* ends the loading phase.
C9_NoPartialResultVisible ==
    /\ [](isLoading => results = Null)
    /\ [](pc \in {"sample", "search", "done"} => isLoading)
    /\ [][(results' # results /\ results' # Null) =>
             /\ isLoading /\ ~isLoading'
             /\ pc = "done" /\ pc' = "responded"
             /\ outcome.kind = "result"
             /\ results'.portfolio = outcome.candidates[1]]_vars

\* the search holds retained candidates while the client is loading
C9_Witness ==
    /\ isLoading
    /\ pc = "search"
    /\ Len(retained) >= 1
    /\ results = Null

\* no subset of the requested size satisfies the sector constraints
Infeasible(c) ==
    /\ c.k > 0
    /\ \A S \in SUBSET Candidates :
          Cardinality(S) = c.k => ~RespectsSectors(S, c)

\* C10: when no subset of the requested size can satisfy the sector
\* constraints, optimize ends (within the iteration cap) by reporting
\* ConstraintUnsatisfiable together with the best partial relaxation it
\* attempted; no constraint-violating candidate is searched, retained or
\* handed out unflagged.
C10_ConstraintUnsatisfiableReported ==
    Infeasible(cfg) =>
        /\ pc # "search"
        /\ retained = <<>>
        /\ iter <= cfg.n_iterations
        /\ results = Null
        /\ pc \in {"done", "responded"} =>
              /\ outcome.kind = "unsatisfiable"
              /\ outcome.relaxed
              /\ "ConstraintUnsatisfiable" \in outcome.warnings
              /\ outcome.candidates = <<partial>>
              /\ Cardinality(partial) = cfg.k

C10_Witness ==
    /\ Infeasible(cfg)
    /\ pc = "done"
    /\ iter = cfg.n_iterations
    /\ outcome.kind = "unsatisfiable"

\* C7: for the same sequence of trials, the run with one worker and the
\* run split over NumWorkers workers end with the same best-K list,
\* whatever the split and the order in which the local lists are merged.
C7_MergeEqualsSingleWorker ==
    reducePc = "merged" => globalBest = singleBest

\* C12: every request started by handleOptimize eventually leaves the
\* loading state, and it leaves it with exactly one of results and error
\* set, whether the server answers with a result, answers with an error,
\* or no answer arrives.
C12_RequestEndsWithResultsOrError ==
    /\ isLoading ~> ~isLoading
    /\ [][(isLoading /\ ~isLoading') =>
             (results' # Null) # (error' # Null)]_vars

\* a request has ended with an error after the search had produced
\* candidates
C12_Witness ==
    /\ ~isLoading
    /\ error # Null
    /\ results = Null
    /\ pc = "responded"

\* C13: each of the five API functions resolves, never rejects: with
\* {success: true, data} when the request succeeded, with {success: false,
\* error, message} otherwise; optimizePortfolio reports the server's code
\* (default 'optimization_error') when a response came, 'network_error'
\* when none came, 'unknown_error' when the request could not be sent.
C13_ApiCallsAlwaysResolve ==
    apiFn # "none" =>
        /\ apiResult.success \in BOOLEAN
        /\ apiResult.success <=>
              (apiWire.kind = "response" /\ apiWire.status \in 200..299)
        /\ apiResult.success => apiResult.data = apiWire.data
        /\ ~apiResult.success =>
              /\ apiResult.error \notin {Undefined, ""}
              /\ apiResult.message \notin {Undefined, ""}
        /\ (apiFn = "optimizePortfolio" /\ ~apiResult.success) =>
              apiResult.error =
                 IF apiWire.kind = "response"
                 THEN IF apiWire.data.error \in {Undefined, ""}
                      THEN "optimization_error" ELSE apiWire.data.error
                 ELSE IF apiWire.kind = "no_response"
                      THEN "network_error" ELSE "unknown_error"

\* an error response without a code of its own
C13_Witness ==
    /\ apiFn = "optimizePortfolio"
    /\ apiWire.kind = "response"
    /\ apiWire.status = 500
    /\ apiWire.data.error = Undefined
    /\ apiResult.error = "optimization_error"

\* the ranges of the documentation, fractions in hundredths
InDocumentedRanges(c) ==
    /\ c.max_stocks \in 5..15
    /\ c.min_return \in 5..30
    /\ c.risk_window_months \in {6, 9, 12, 15, 18, 21, 24}
    /\ c.return_window_months \in 1..12
    /\ c.correlation_threshold \in 50..95
    /\ c.top_k_per_sector \in 3..10

\* C14: after any sequence of slider changes and risk-profile selections
\* the config passed to onOptimize is inside the documented ranges.
C14_ConfigStaysInRange ==
    /\ InDocumentedRanges(config)
    /\ submitted # Null => InDocumentedRanges(submitted)

\* a config with every slider moved to its upper end, submitted after the
\* high-risk profile was applied
C14_Witness ==
    /\ submitted # Null
    /\ submitted = config
    /\ submitted.max_stocks = 15
    /\ submitted.risk_window_months = 24
    /\ submitted.min_return = 18
    /\ submitted.correlation_threshold = 95

\* C17: in each iteration the sector check comes before the risk
\* computation: the loop computes no risk for a sample that violates the
\* max-per-sector or the minimum-sectors constraint, and such a sample is
\* neither passed to local search nor retained.
C17_SectorCheckBeforeRisk ==
    /\ [](/\ risked # NoCand => RespectsSectors(risked, cfg)
          /\ pc = "search" => RespectsSectors(cur, cfg)
          /\ \A i \in 1..Len(retained) : RespectsSectors(retained[i], cfg))
    /\ [][(pc = "sample" /\ pc' = "sample" /\ iter' = iter + 1) =>
             (risked' = NoCand /\ retained' = retained)]_vars

\* a violating sample has been rejected and the risk of a later sample
\* has been computed
C17_Witness ==
    /\ partial # NoCand
    /\ ~RespectsSectors(partial, cfg)
    /\ risked # NoCand
    /\ pc = "search"

SeqToSet(list) == { list[i] : i \in 1..Len(list) }

\* j is ahead of i in the ranking of the claim
Outranks(j, i) ==
    \/ ShortReturn(j) > ShortReturn(i)
    \/ ShortReturn(j) = ShortReturn(i) /\ SharpeRatio(j) > SharpeRatio(i)
    \/ /\ ShortReturn(j) = ShortReturn(i)
       /\ SharpeRatio(j) = SharpeRatio(i)
       /\ j < i

\* the complete instruments of the universe in sector s
CompleteOf(s) ==
    { i \in SeqToSet(universe) : Sector(i) = s /\ is_complete(i) }

C15_ClusterCapAndPreference ==
    selPc = "pooled" =>
        /\ SeqToSet(pool) \subseteq SeqToSet(ranked)
        /\ \A C \in clusters :
              LET kept == C \cap SeqToSet(pool)
              IN /\ Cardinality(kept) <= clusterCap
                 /\ Cardinality(kept) =
                       IF Cardinality(C) < clusterCap
                       THEN Cardinality(C) ELSE clusterCap
                 /\ \A i \in kept, j \in C \ kept :
                       \/ SharpeRatio(i) > SharpeRatio(j)
                       \/ /\ SharpeRatio(i) = SharpeRatio(j)
                          /\ ShortReturn(i) >= ShortReturn(j)

\* a cluster of three or more from which the Sharpe ratio keeps one
\* member and the return decides the other
C15_Witness ==
    /\ selPc = "pooled"
    /\ clusterCap = 2
    /\ \E C \in clusters :
          /\ Cardinality(C) >= 3
          /\ \E i, j \in C \cap SeqToSet(pool), x \in C \ SeqToSet(pool) :
                /\ SharpeRatio(i) > SharpeRatio(j)
                /\ SharpeRatio(j) = SharpeRatio(x)
                /\ ShortReturn(j) > ShortReturn(x)

\* i and j are in one cluster
SameCluster(i, j) == \E C \in clusters : {i, j} \subseteq C

BreaksContract(w, order) ==
    \/ SeqSum(w.num) # w.den
    \/ \E a \in 1..Len(w.num) : w.num[a] < 0
    \/ w.order # order

C19_EngineWitness ==
    /\ riskPc = "computed"
    /\ caller = "engine"
    /\ Len(covOrder) = 3
    /\ variance.error = "none"

\* the highest price of the path up to position j
RunningPeak(path, j) ==
    CHOOSE x \in {path[a] : a \in 1..j} : \A a \in 1..j : path[a] <= x

NonDecreasing(path) == \A a \in 1..(Len(path) - 1) : path[a] <= path[a + 1]

\* C20: max_drawdown returns 0 for every price path that never decreases,
\* and for any path the largest relative decline from a running peak to a
\* later value, which is never negative.
C20_MaxDrawdown ==
    riskPc = "drawn" =>
        /\ drawdown.error = "none"
        /\ drawdown.den > 0
        /\ drawdown.num >= 0
        /\ NonDecreasing(pricePath) => drawdown.num = 0
        /\ \E j \in 1..Len(pricePath) :
              LET d == Decline(RunningPeak(pricePath, j), pricePath[j])
              IN d.num * drawdown.den = drawdown.num * d.den
        /\ \A j \in 1..Len(pricePath) :
              ~FracLess(drawdown,
                        Decline(RunningPeak(pricePath, j), pricePath[j]))

\* a path that rises to its peak before its deepest fall
C20_Witness ==
    /\ riskPc = "drawn"
    /\ pricePath = <<2, 3, 1, 3>>
    /\ drawdown.num * 3 = 2 * drawdown.den

C21_ResultsAndErrorExclusive ==
    ~(results # Null /\ error # Null)

\* a request was answered with status 500 and its error is on screen
C21_Witness ==
    /\ error # Null
    /\ results = Null
    /\ ~isLoading
    /\ lastWire.kind = "response"
    /\ lastWire.status = 500

\* C22: at most one optimization request is in flight at any time: the
\* submit button is disabled from the start of handleOptimize until its
\* response is processed, so no handleOptimize starts while isLoading, and
\* the response that is processed is that of the only request there is: no
\* newer request exists whose state it could overwrite.
C22_OneRequestInFlight ==
    /\ [](/\ inFlight <= 1
          /\ isLoading <=> inFlight = 1
          /\ submit_disabled <=> inFlight = 1
          /\ isLoading => ~ENABLED Submit)
    /\ [][inFlight' > inFlight =>
             (~isLoading /\ inFlight = 0 /\ isLoading')]_vars
    /\ [][inFlight' < inFlight => (inFlight' = 0 /\ ~isLoading')]_vars

\* a request is in flight, the button is disabled, and a health check
\* has resolved in the meantime or before
C22_Witness ==
    /\ inFlight = 1
    /\ isLoading
    /\ submit_disabled
    /\ backendStatus # "checking"

\* C23: in every state of App exactly one of the four result-area panels
\* is rendered: the loading panel when isLoading, else the error panel
\* when error is set, else the results panel when results is set, else
\* the initial panel.
C23_ExactlyOnePanel ==
    RenderedPanels =
       { IF isLoading THEN "loading"
         ELSE IF error # Null THEN "error"
         ELSE IF results # Null THEN "results"
         ELSE "initial" }

\* the results panel is on screen after an answered request
C23_Witness ==
    /\ results # Null
    /\ lastWire.kind = "response"
    /\ lastWire.status = 200
    /\ RenderedPanels = {"results"}

\* C24: handleOptimize leaves backendStatus unchanged in every outcome,
\* a failure with code network_error included, and submitting is not
\* gated by backendStatus: whatever the status, a submission is possible
\* whenever App is not loading, and a request awaited under status healthy
\* can end with the error panel reporting that the server cannot be
\* reached while the status stays healthy.
C24_OptimizeLeavesBackendStatus ==
    /\ [][inFlight' # inFlight => backendStatus' = backendStatus]_vars
    /\ [](~isLoading => ENABLED Submit)
    /\ []((inFlight = 1 /\ backendStatus = "healthy") =>
             ENABLED (/\ ServerAnswers
                      /\ error' # Null
                      /\ error'.code = "network_error"
                      /\ ~isLoading'
                      /\ backendStatus' = "healthy"))

\* the error panel reports a network error while the status is healthy
C24_Witness ==
    /\ backendStatus = "healthy"
    /\ ErrorPanel
    /\ error.code = "network_error"
    /\ lastWire = NoResponse

\* a request was started while the status was offline
C24_OfflineWitness ==
    /\ backendStatus = "offline"
    /\ healthPending = 0
    /\ isLoading

\* the optimize call met an error response of the server
FailedResponse(w) ==
    w.kind = "response" /\ ~(w.status >= 200 /\ w.status < 300)

\* C25: the insufficient_return suggestion is shown exactly when the
\* failed response body carries error = insufficient_return at its top
\* level: the code is response.data.error or else optimization_error, the
\* message is response.data.message, or else response.data.detail.message,
\* or else 'Optimization failed', so a body with the code only under
\* detail gives optimization_error with the detail message.
C25_SuggestionFromTopLevelCode ==
    /\ [](InsufficientReturnSuggestion =>
             (FailedResponse(lastWire)
                 /\ lastWire.data.error = "insufficient_return"))
    /\ [][(inFlight' < inFlight /\ FailedResponse(lastWire')) =>
             LET body == lastWire'.data
             IN /\ error' # Null
                /\ InsufficientReturnSuggestion' <=>
                      body.error = "insufficient_return"
                /\ error'.code =
                      (IF body.error \in {Undefined, ""}
                       THEN "optimization_error" ELSE body.error)
                /\ error'.message =
                      (IF body.message \notin {Undefined, ""}
                       THEN body.message
                       ELSE IF body.detail_message \notin {Undefined, ""}
                       THEN body.detail_message
                       ELSE "Optimization failed")
                /\ (body.error = Undefined
                      /\ body.detail_error = "insufficient_return"
                      /\ body.message = Undefined
                      /\ body.detail_message # Undefined) =>
                      (/\ error'.code = "optimization_error"
                       /\ error'.message = body.detail_message
                       /\ ~InsufficientReturnSuggestion')]_vars
    /\ [][(inFlight' < inFlight /\ ~FailedResponse(lastWire')) =>
             ~InsufficientReturnSuggestion']_vars

\* a failed response carried the code only under detail: the error panel
\* shows the detail message without the suggestion
C25_Witness ==
    /\ FailedResponse(lastWire)
    /\ lastWire.data.error = Undefined
    /\ lastWire.data.detail_error = "insufficient_return"
    /\ lastWire.data.message = Undefined
    /\ ErrorPanel
    /\ error.code = "optimization_error"
    /\ error.message = "detail"
    /\ ~InsufficientReturnSuggestion

\* a failed response with the code at its top level: the suggestion is on
\* screen
C25_SuggestionWitness ==
    /\ FailedResponse(lastWire)
    /\ lastWire.data.error = "insufficient_return"
    /\ InsufficientReturnSuggestion

\* C26: backendStatus starts as checking, becomes healthy or offline once
\* the first health check resolves, and never returns to checking: during
\* a retry it keeps its value until the new health check resolves, and
\* the retry is available only while the status is offline.
C26_BackendStatusLeavesChecking ==
    /\ backendStatus = "checking"
    /\ [](backendStatus = "checking" => healthPending >= 1)
    /\ [](ENABLED RetryConnection => backendStatus = "offline")
    /\ [][backendStatus # "checking" => backendStatus' # "checking"]_vars
    /\ [][healthPending' < healthPending =>
             backendStatus' \in {"healthy", "offline"}]_vars
    /\ [][backendStatus' # backendStatus =>
             healthPending' < healthPending]_vars
    /\ [][healthPending' > healthPending =>
             (backendStatus = "offline" /\ backendStatus' = "offline")]_vars

\* two retries are awaited and the status is still offline
C26_Witness ==
    /\ backendStatus = "offline"
    /\ healthPending = MaxHealthChecks
    /\ MaxHealthChecks >= 2

\* C27: dismissing the error of a failed optimization brings App back to
\* its initial state (isLoading false, error null, results null), so the
\* results of an earlier successful optimization are never shown again
\* after a later request has failed: the results panel appears only with
\* the successful response that carries the results.
C27_DismissReturnsToInitial ==
    /\ [][(error # Null /\ error' = Null /\ inFlight' = inFlight) =>
             /\ ~isLoading'
             /\ results' = Null
             /\ RenderedPanels' = {"initial"}]_vars
    /\ [][(~ResultsPanel /\ ResultsPanel') =>
             /\ inFlight' < inFlight
             /\ lastWire'.kind = "response"
             /\ ~FailedResponse(lastWire')
             /\ results' = lastWire'.data]_vars

\* the error of a failed request has been dismissed
C27_Witness ==
    /\ FailedResponse(lastWire)
    /\ error = Null
    /\ results = Null
    /\ ~isLoading
    /\ RenderedPanels = {"initial"}

\* C28: for every stock count the configuration panel can submit, at
\* least one subset of that size satisfies the documented sector
\* constraints (at most 2 stocks per sector, at least 6 sectors
\* represented) over the 11-sector universe.
C28_SubmittedCountIsFeasible ==
    submitted # Null => submitted.max_stocks \in FeasibleSizes

====
